---- MODULE Spec2Model ----
(***************************************************************************)
(* fireant/slicer/transformers/datatables.py: the row-oriented and the     *)
(* column-pivoted DataTables renderers and the two CSV serializers.        *)
(*                                                                         *)
(* Python strings are sequences of one-character strings, so that join,    *)
(* replace and the '.' separator of a data path are real operations on     *)
(* text.  A Python scalar is a record [t, v]: its type and its str().      *)
(* A dict is a sequence of <<key, value>> pairs in insertion order.        *)
(***************************************************************************)
EXTENDS Integers, Sequences, FiniteSets, TLC

VARIABLES dataframe, display_schema, called, result

vars == <<dataframe, display_schema, called, result>>

(***************************************************************************)
(* Python scalars                                                          *)
(***************************************************************************)
Str(s) == [t |-> "str", v |-> s]
Int64(s) == [t |-> "int64", v |-> s]
PyInt(s) == [t |-> "int", v |-> s]
Float(s) == [t |-> "float", v |-> s]
Timestamp(s) == [t |-> "Timestamp", v |-> s]
NaN == Float(<<"n", "a", "n">>)
PosInf == Float(<<"i", "n", "f">>)
NegInf == Float(<<"-", "i", "n", "f">>)
None == [t |-> "NoneType", v |-> <<"N", "o", "n", "e">>]
SeriesObject == [t |-> "Series", v |-> <<>>]

isnan(value) == value.t = "float" /\ value = NaN

IsInf(value) == value = PosInf \/ value = NegInf

\* bool(value): None, '', 0 and 0.0 are falsy; nan is truthy.
Truthy(value) ==
    CASE value.t = "NoneType" -> FALSE
      [] value.t = "str" -> value.v # <<>>
      [] value.t \in {"int", "int64"} -> value.v # <<"0">>
      [] value.t = "float" -> value.v # <<"0", ".", "0">>
      [] OTHER -> TRUE

\* a or b
PyOr(a, b) == IF Truthy(a) THEN a ELSE b

\* Two dict keys are the same key: equal, with int and np.int64 of one value equal.
KeyEq(a, b) ==
    \/ a = b
    \/ a.t \in {"int", "int64"} /\ b.t \in {"int", "int64"} /\ a.v = b.v

\* The text before the first "T" of an ISO timestamp, and whether its time is 00:00.
RECURSIVE DatePart(_)
DatePart(s) ==
    IF s = <<>> \/ Head(s) = "T" THEN <<>> ELSE <<Head(s)>> \o DatePart(Tail(s))

NO_TIME == <<"T", "0">>

HasNoTime(s) == SubSeq(s, Len(DatePart(s)) + 1, Len(s)) = NO_TIME

(***************************************************************************)
(* Text                                                                    *)
(***************************************************************************)
RECURSIVE Join(_, _)
Join(sep, parts) ==
    IF parts = <<>> THEN <<>>
    ELSE IF Len(parts) = 1 THEN parts[1]
    ELSE parts[1] \o sep \o Join(sep, Tail(parts))

\* s.replace(old, new) for a one-character old
RECURSIVE Replace(_, _, _)
Replace(s, old, new) ==
    IF s = <<>> THEN <<>>
    ELSE (IF Head(s) = old THEN new ELSE <<Head(s)>>) \o Replace(Tail(s), old, new)

\* seq[1:]
Rest(seq) == IF seq = <<>> THEN <<>> ELSE Tail(seq)

Contains(s, ch) == \E i \in 1..Len(s) : s[i] = ch

\* s.split(ch)
RECURSIVE Split(_, _)
Split(s, ch) ==
    IF ~Contains(s, ch) THEN <<s>>
    ELSE LET i == CHOOSE j \in 1..Len(s) : s[j] = ch /\ \A k \in 1..(j - 1) : s[k] # ch
         IN <<SubSeq(s, 1, i - 1)>> \o Split(SubSeq(s, i + 1, Len(s)), ch)

(***************************************************************************)
(* dict                                                                    *)
(***************************************************************************)
DictHas(d, k) == \E i \in 1..Len(d) : d[i][1] = k

DictGet(d, k) == d[CHOOSE i \in 1..Len(d) : d[i][1] = k][2]

DictKeys(d) == [i \in 1..Len(d) |-> d[i][1]]

\* d[k] = x: an existing key keeps its place
DictSet(d, k, x) ==
    IF DictHas(d, k)
    THEN [i \in 1..Len(d) |-> IF d[i][1] = k THEN <<k, x>> ELSE d[i]]
    ELSE Append(d, <<k, x>>)

\* dict(pairs)
RECURSIVE DictOf(_)
DictOf(pairs) ==
    IF pairs = <<>> THEN <<>>
    ELSE LET n == Len(pairs)
         IN DictSet(DictOf(SubSeq(pairs, 1, n - 1)), pairs[n][1], pairs[n][2])

\* label_options.get(value, default): keys are raw values
OptionsHas(options, value) == \E i \in 1..Len(options) : KeyEq(options[i][1], value)

\* .get(value) without the default
OptionsGet_NoDefault(options, value, default) ==
    IF OptionsHas(options, value)
    THEN Str(options[CHOOSE i \in 1..Len(options) : KeyEq(options[i][1], value)][2])
    ELSE None

OptionsGet(options, value, default) ==
    IF OptionsHas(options, value)
    THEN Str(options[CHOOSE i \in 1..Len(options) : KeyEq(options[i][1], value)][2])
    ELSE default

\* A value of the rendered structure: a scalar, or a nested dict.
Leaf(value) == [kind |-> "leaf", val |-> value, items |-> <<>>]

Node(items) == [kind |-> "dict", val |-> None, items |-> items]

Ok(x) == [exc |-> "", val |-> x]

Raise(e) == [exc |-> e, val |-> <<>>]

(***************************************************************************)
(* _format_data_point                                                      *)
(***************************************************************************)
_format_data_point(value) ==
    IF value.t = "str" THEN Str(value.v)
    ELSE IF value.t = "Timestamp"
         THEN (IF HasNoTime(value.v) THEN Str(DatePart(value.v)) ELSE Str(value.v))
    ELSE IF value.t = "NoneType" \/ (value.t = "float" /\ isnan(value)) THEN None
    ELSE IF value.t = "int64" THEN PyInt(value.v)
    ELSE value

(***************************************************************************)
(* pandas: the order of index values, Index and MultiIndex                 *)
(***************************************************************************)
Alphabet ==
    <<" ", "(", ")", ",", "-", ".", "0", "1", "2", "3", "4", "5", "6", "7", "8", "9",
      "A", "B", "C", "D", "E", "F", "G", "H", "I", "J", "K", "L", "M", "N", "O", "P",
      "Q", "R", "S", "T", "U", "V", "W", "X", "Y", "Z", "_", "a", "b", "c", "d", "e",
      "f", "g", "h", "i", "j", "k", "l", "m", "n", "o", "p", "q", "r", "s", "t", "u",
      "v", "w", "x", "y", "z">>

CharCode(ch) == CHOOSE i \in 1..Len(Alphabet) : Alphabet[i] = ch

RECURSIVE LexLess(_, _)
LexLess(s, u) ==
    IF u = <<>> THEN FALSE
    ELSE IF s = <<>> THEN TRUE
    ELSE IF Head(s) = Head(u) THEN LexLess(Tail(s), Tail(u))
    ELSE CharCode(Head(s)) < CharCode(Head(u))

\* The order unstack puts index values in: a missing value first, numbers by
\* value, text by character.
ValueLess(a, b) ==
    IF isnan(a) \/ isnan(b) THEN isnan(a) /\ ~isnan(b)
    ELSE IF a.t # b.t THEN LexLess(<<a.t>>, <<b.t>>) \/ (a.t = "int64" /\ b.t = "str")
    ELSE IF a.t \in {"int", "int64"}
         THEN Len(a.v) < Len(b.v) \/ (Len(a.v) = Len(b.v) /\ LexLess(a.v, b.v))
    ELSE LexLess(a.v, b.v)

RECURSIVE TupleLess(_, _)
TupleLess(x, y) ==
    IF y = <<>> THEN FALSE
    ELSE IF x = <<>> THEN TRUE
    ELSE IF Head(x) = Head(y) THEN TupleLess(Tail(x), Tail(y))
    ELSE ValueLess(Head(x), Head(y))

SortTuples(S) ==
    [i \in 1..Cardinality(S) |->
        CHOOSE x \in S : Cardinality({y \in S : TupleLess(y, x)}) = i - 1]

Range(f) == {f[i] : i \in DOMAIN f}

RECURSIVE Flatten(_)
Flatten(seqs) == IF seqs = <<>> THEN <<>> ELSE Head(seqs) \o Flatten(Tail(seqs))

\* MultiIndex.levels[k]: the distinct values of level k, sorted, without nan
LevelValues(keys, k) ==
    Flatten(SortTuples({<<key[k]>> : key \in {x \in Range(keys) : ~isnan(x[k])}}))

NoName == <<"None">>

MultiIndex(names, keys) ==
    [kind |-> "MultiIndex", names |-> names, keys |-> keys,
     levels |-> [k \in 1..Len(names) |-> LevelValues(keys, k)]]

Index(name, keys) ==
    [kind |-> "Index", names |-> <<name>>, keys |-> keys, levels |-> <<>>]

RangeIndex(keys) ==
    [kind |-> "RangeIndex", names |-> <<NoName>>, keys |-> keys, levels |-> <<>>]

\* An index over `names`: a MultiIndex when there are two or more levels
MakeIndex(names, keys) ==
    IF Len(names) = 1 THEN Index(names[1], keys) ELSE MultiIndex(names, keys)

IsMultiIndex(index) == index.kind = "MultiIndex"

Positions(names, wanted) ==
    [i \in 1..Len(wanted) |-> CHOOSE k \in 1..Len(names) : names[k] = wanted[i]]

Project(key, positions) == [i \in 1..Len(positions) |-> key[positions[i]]]

RECURSIVE Without(_, _)
Without(seq, drop) ==
    IF seq = <<>> THEN <<>>
    ELSE (IF Head(seq) \in drop THEN <<>> ELSE <<Head(seq)>>) \o Without(Tail(seq), drop)

Indices(n) == [i \in 1..n |-> i]

(***************************************************************************)
(* pandas: DataFrame                                                       *)
(***************************************************************************)
\* dataframe.replace([np.inf, -np.inf], np.nan): a new frame (obj is the identity
\* of a frame object: "caller" for the one passed to transform, "copy" for one
\* made during the call)
ReplaceInf(df) ==
    [df EXCEPT !.obj = "copy", !.values =
        [r \in 1..Len(df.values) |->
            [c \in 1..Len(df.values[r]) |->
                IF IsInf(df.values[r][c]) THEN NaN ELSE df.values[r][c]]]]

\* dataframe.unstack(level=levels): the named index levels move into the columns.
\* The rows left and the unstacked combinations are the observed ones, sorted; a
\* cell without a data point is nan.
UnstackSource(df, kept, moved, row, combo) ==
    {i \in 1..Len(df.index.keys) :
        Project(df.index.keys[i], kept) = row /\ Project(df.index.keys[i], moved) = combo}

UnstackCell(df, source, c) ==
    IF source = {} THEN NaN ELSE df.values[CHOOSE i \in source : TRUE][c]

UnstackOnto(df, levels, kept, moved, rows, combos) ==
    [obj |-> "copy",
     index |-> MakeIndex(Project(df.index.names, kept), rows),
     columns |-> MultiIndex(
         df.columns.names \o levels,
         Flatten([c \in 1..Len(df.columns.keys) |->
             [u \in 1..Len(combos) |-> df.columns.keys[c] \o combos[u]]])),
     values |-> [r \in 1..Len(rows) |->
         Flatten([c \in 1..Len(df.columns.keys) |->
             [u \in 1..Len(combos) |->
                 UnstackCell(df, UnstackSource(df, kept, moved, rows[r], combos[u]), c)]])]]

UnstackMoving(df, levels, kept, moved) ==
    UnstackOnto(df, levels, kept, moved,
                SortTuples({Project(key, kept) : key \in Range(df.index.keys)}),
                SortTuples({Project(key, moved) : key \in Range(df.index.keys)}))

Unstack(df, levels) ==
    UnstackMoving(df, levels,
                  Without(Indices(Len(df.index.names)),
                          Range(Positions(df.index.names, levels))),
                  Positions(df.index.names, levels))

UnstackRaises(df, levels) ==
    \/ \E i \in 1..Len(levels) : ~\E k \in 1..Len(df.index.names) : df.index.names[k] = levels[i]
    \/ Cardinality(Range(df.index.keys)) # Len(df.index.keys)

\* unstack raises KeyError for a level the index lacks
DataFrame_unstack(df, levels) ==
    IF UnstackRaises(df, levels) THEN Raise("KeyError") ELSE Ok(Unstack(df, levels))

\* A row of the frame as iterrows gives it: a Series over the columns
RowSeries(df, r) == [index |-> df.columns, vals |-> df.values[r]]

\* series[key] on a flat index: the scalar
SeriesHas(series, key) == \E i \in 1..Len(series.index.keys) : series.index.keys[i][1] = key

SeriesScalar(series, key) ==
    series.vals[CHOOSE i \in 1..Len(series.index.keys) : series.index.keys[i][1] = key]

\* series[...] on a MultiIndex: the entries whose levels at `positions` equal
\* `wanted`, those levels dropped from the index; the levels left keep all their values
Matching(series, positions, wanted) ==
    LET all == Indices(Len(series.index.keys))
    IN Without(all, {i \in Range(all) : Project(series.index.keys[i], positions) # wanted})

CrossSection(series, positions, wanted) ==
    LET hit == Matching(series, positions, wanted)
        left == Without(Indices(Len(series.index.names)), Range(positions))
        keys == [i \in 1..Len(hit) |-> Project(series.index.keys[hit[i]], left)]
        names == Project(series.index.names, left)
    IN [index |->
            IF Len(left) = 1 THEN Index(names[1], keys)
            ELSE [kind |-> "MultiIndex", names |-> names, keys |-> keys,
                  levels |-> Project(series.index.levels, left)],
        vals |-> [i \in 1..Len(hit) |-> series.vals[hit[i]]]]

(***************************************************************************)
(* Results of calls that may raise                                         *)
(***************************************************************************)
\* The first exception of a sequence of results, "" when none raises
RECURSIVE FirstExc(_)
FirstExc(results) ==
    IF results = <<>> THEN ""
    ELSE IF Head(results).exc # "" THEN Head(results).exc
    ELSE FirstExc(Tail(results))

Vals(results) == [i \in 1..Len(results) |-> results[i].val]

\* A list built from the results of its elements
Collect(results) ==
    IF FirstExc(results) # "" THEN Raise(FirstExc(results)) ELSE Ok(Vals(results))

\* A list built by concatenating the lists its elements give
CollectAll(results) ==
    IF FirstExc(results) # "" THEN Raise(FirstExc(results)) ELSE Ok(Flatten(Vals(results)))

\* A list followed by another: what the first raises, else what the second raises
Then(first, rest) ==
    IF first.exc # "" THEN first
    ELSE IF rest.exc # "" THEN rest
    ELSE Ok(first.val \o rest.val)

(***************************************************************************)
(* display_schema                                                          *)
(***************************************************************************)
\* display_schema['metrics'][key] for a column-key slot
MetricsHas(metrics, key) == key.t = "str" /\ DictHas(metrics, key.v)

ReferencesHas(references, key) == key.t = "str" /\ DictHas(references, key.v)

\* display_schema.get('references')
ReferencesOf(schema) == IF schema.has_references THEN schema.references ELSE <<>>

(***************************************************************************)
(* DataTablesRowIndexTransformer                                           *)
(***************************************************************************)
\* The preparation without the replacement of infinities
Row_prepare_dataframe_KeepsInf(df, dimensions) == Ok(df)

Row_prepare_dataframe(df, dimensions) == Ok(ReplaceInf(df))

\* The descriptor of the metric alone, whatever the reference slot holds
Row_render_column_level_IgnoresReference(is_tuple, metric_column, schema) ==
    LET metric_key == metric_column[IF is_tuple /\ schema.has_references THEN 2 ELSE 1]
    IN Ok([title |-> DictGet(schema.metrics, metric_key.v), data |-> metric_key.v])

Row_render_column_level(is_tuple, metric_column, schema) ==
    IF ~is_tuple
    THEN IF ~MetricsHas(schema.metrics, metric_column[1]) THEN Raise("KeyError")
         ELSE Ok([title |-> DictGet(schema.metrics, metric_column[1].v),
                  data |-> metric_column[1].v])
    ELSE LET metric_key_idx == IF schema.has_references THEN 1 ELSE 0
         IN IF metric_key_idx = 1 /\ Truthy(metric_column[1])
            THEN LET reference_key == metric_column[1]
                     metric_key == metric_column[2]
                 IN IF ~MetricsHas(schema.metrics, metric_key)
                       \/ ~ReferencesHas(schema.references, reference_key)
                    THEN Raise("KeyError")
                    ELSE Ok([title |-> DictGet(schema.metrics, metric_key.v) \o <<" ">>
                                       \o DictGet(schema.references, reference_key.v),
                             data |-> Join(<<".">>, <<reference_key.v, metric_key.v>>)])
            ELSE LET metric_key == metric_column[metric_key_idx + 1]
                 IN IF ~MetricsHas(schema.metrics, metric_key) THEN Raise("KeyError")
                    ELSE Ok([title |-> DictGet(schema.metrics, metric_key.v),
                             data |-> Join(<<".">>, <<metric_key.v>>)])

\* The walk over the pivoted levels: i is the (0-based) slot of the column key
RECURSIVE PivotedLevels(_, _, _)
PivotedLevels(metric_column, dimensions, i) ==
    IF dimensions = <<>> THEN [exc |-> "", levels |-> <<>>, data_keys |-> <<>>]
    ELSE LET dimension == dimensions[1][2]
             j == IF ~dimension.has_label_options /\ dimension.has_label_field
                  THEN i + 1 ELSE i
         IN IF j >= Len(metric_column)
            THEN [exc |-> "IndexError", levels |-> <<>>, data_keys |-> <<>>]
            ELSE LET level_key == metric_column[i + 1]
                     level_label ==
                         IF dimension.has_label_options
                         THEN (IF ~isnan(level_key)
                               THEN OptionsGet(dimension.label_options, level_key, None)
                               ELSE Str(<<"T", "o", "t", "a", "l">>))
                         ELSE metric_column[j + 1]
                     rest == PivotedLevels(metric_column, Tail(dimensions), j + 1)
                 IN IF isnan(level_key) THEN rest
                    ELSE [exc |-> rest.exc,
                          levels |-> <<level_label>> \o rest.levels,
                          data_keys |-> <<level_key>> \o rest.data_keys]

StrOf(values) == [i \in 1..Len(values) |-> values[i].v]

\* The title and the data path from the base descriptor and the walk over the levels
PivotedColumn(column, walk) ==
    IF column.exc # "" THEN column
    ELSE IF walk.exc # "" THEN Raise(walk.exc)
    ELSE IF \E k \in 1..Len(walk.levels) : walk.levels[k].t # "str" THEN Raise("TypeError")
    ELSE Ok([title |->
                 IF walk.levels # <<>>
                 THEN column.val.title \o <<" ", "(">>
                      \o Join(<<",", " ">>, StrOf(walk.levels)) \o <<")">>
                 ELSE column.val.title,
             data |->
                 IF walk.data_keys # <<>> /\ Contains(column.val.data, ".")
                 THEN Replace(column.val.data, ".",
                              <<".">> \o Join(<<".">>, StrOf(walk.data_keys)) \o <<".">>)
                 ELSE Join(<<".">>, StrOf(walk.data_keys) \o <<column.val.data>>)])

Column_render_column_level(is_tuple, metric_column, schema) ==
    PivotedColumn(Row_render_column_level(is_tuple, metric_column, schema),
                  PivotedLevels(metric_column, Rest(schema.dimensions),
                                IF schema.has_references THEN 2 ELSE 1))

_render_column_level(cls, is_tuple, metric_column, schema) ==
    IF cls = "column" THEN Column_render_column_level(is_tuple, metric_column, schema)
    ELSE Row_render_column_level(is_tuple, metric_column, schema)

\* One descriptor per index level that is a dimension of the schema
DimensionColumns(names, dimensions) ==
    LET present == Without(Indices(Len(names)),
                           {k \in 1..Len(names) : ~DictHas(dimensions, names[k])})
    IN [k \in 1..Len(present) |->
           [title |-> DictGet(dimensions, names[present[k]]).label,
            data |-> names[present[k]] \o <<".", "d", "i", "s", "p", "l", "a", "y">>]]

_render_columns(cls, df, schema) ==
    Then(Ok(DimensionColumns(df.index.names, schema.dimensions)),
         Collect([c \in 1..Len(df.columns.keys) |->
             _render_column_level(cls, IsMultiIndex(df.columns), df.columns.keys[c], schema)]))

Total == <<"T", "o", "t", "a", "l">>

\* The generator over the row dimensions: i is the (0-based) slot of the row key
RECURSIVE DimensionDataFrom(_, _, _)
DimensionDataFrom(idx, dimensions, i) ==
    IF dimensions = <<>> THEN Ok(<<>>)
    ELSE IF i >= Len(idx) THEN Raise("IndexError")
    ELSE LET key == dimensions[1][1]
             dimension == dimensions[1][2]
             dimension_value == _format_data_point(idx[i + 1])
         IN IF dimension.has_label_field
            THEN IF i + 1 >= Len(idx) THEN Raise("IndexError")
                 ELSE LET rest == DimensionDataFrom(idx, Tail(dimensions), i + 2)
                          item == <<Str(key), Node(<<
                                      <<Str(<<"d", "i", "s", "p", "l", "a", "y">>),
                                        Leaf(dimension_value)>>,
                                      <<Str(<<"v", "a", "l", "u", "e">>),
                                        Leaf(_format_data_point(idx[i + 2]))>> >>)>>
                      IN IF rest.exc # "" THEN rest ELSE Ok(<<item>> \o rest.val)
            ELSE LET rest == DimensionDataFrom(idx, Tail(dimensions), i + 1)
                     item ==
                         IF dimension.has_label_options
                         THEN <<Str(key), Node(<<
                                  <<Str(<<"d", "i", "s", "p", "l", "a", "y">>),
                                    Leaf(PyOr(OptionsGet(dimension.label_options,
                                                         dimension_value, dimension_value),
                                              Str(Total)))>>,
                                  <<Str(<<"v", "a", "l", "u", "e">>),
                                    Leaf(dimension_value)>> >>)>>
                         ELSE <<Str(key), Node(<<
                                  <<Str(<<"d", "i", "s", "p", "l", "a", "y">>),
                                    Leaf(dimension_value)>> >>)>>
                 IN IF rest.exc # "" THEN rest ELSE Ok(<<item>> \o rest.val)

_render_dimension_data(idx, dimensions) == DimensionDataFrom(idx, dimensions, 0)

\* df[metric_key] and its formatting, for each metric of the schema
MetricLeaves(series, metrics) ==
    Collect([m \in 1..Len(metrics) |->
        IF IsMultiIndex(series.index)
        THEN (IF Matching(series, <<1>>, <<Str(metrics[m][1])>>) = <<>> THEN Raise("KeyError")
              ELSE Ok(<<Str(metrics[m][1]), Leaf(_format_data_point(SeriesObject))>>))
        ELSE (IF ~SeriesHas(series, Str(metrics[m][1])) THEN Raise("KeyError")
              ELSE Ok(<<Str(metrics[m][1]),
                        Leaf(_format_data_point(SeriesScalar(series, Str(metrics[m][1]))))>>))])

\* (key, dict(items)) as a list of one item
Nested(key, items) ==
    IF items.exc # "" THEN items ELSE Ok(<< <<key, Node(DictOf(items.val))>> >>)

RECURSIVE _recurse_dimensions(_, _, _, _, _)
RECURSIVE Row_recurse_dimensions(_, _, _, _, _)
RECURSIVE Column_recurse_dimensions(_, _, _, _, _)
RECURSIVE LevelItems(_, _, _, _, _, _)

\* reference is <<>> for None
Row_recurse_dimensions(cls, series, dimensions, metrics, reference) ==
    IF reference # <<>>
    THEN Nested(Str(reference), _recurse_dimensions(cls, series, dimensions, metrics, <<>>))
    ELSE MetricLeaves(series, metrics)

\* [(key, dict(self._recurse_dimensions(df[:, key...], dimensions[1:], metrics)))
\*  for key... in wanted]: the levels at `positions` are looked up
LevelItems(cls, series, dimensions, metrics, positions, wanted) ==
    IF wanted = <<>> THEN Ok(<<>>)
    ELSE IF Matching(series, positions, Head(wanted)) = <<>> THEN Raise("KeyError")
    ELSE Then(Nested(Head(wanted)[1],
                     _recurse_dimensions(cls, CrossSection(series, positions, Head(wanted)),
                                         Tail(dimensions), metrics, <<>>)),
              LevelItems(cls, series, dimensions, metrics, positions, Tail(wanted)))

Min(a, b) == IF a < b THEN a ELSE b

\* The override without its "or not dimensions"
Column_recurse_dimensions_AlwaysPivots(cls, series, dimensions, metrics, reference) ==
    IF reference # <<>>
    THEN Row_recurse_dimensions(cls, series, dimensions, metrics, reference)
    ELSE IF ~IsMultiIndex(series.index) THEN Raise("AttributeError")
    ELSE LevelItems(cls, series, dimensions, metrics, <<2>>,
                    [k \in 1..Len(series.index.levels[2]) |-> <<series.index.levels[2][k]>>])

Column_recurse_dimensions(cls, series, dimensions, metrics, reference) ==
    IF reference # <<>> \/ dimensions = <<>>
    THEN Row_recurse_dimensions(cls, series, dimensions, metrics, reference)
    ELSE IF ~IsMultiIndex(series.index) THEN Raise("AttributeError")
    ELSE LET levels == series.index.levels
         IN IF dimensions[1][2].has_label_field
            THEN IF Len(levels) < 3
                 THEN (IF levels[2] = <<>> THEN Ok(<<>>) ELSE Raise("ValueError"))
                 ELSE LevelItems(cls, series, dimensions, metrics, <<2, 3>>,
                                 [k \in 1..Min(Len(levels[2]), Len(levels[3])) |->
                                     <<levels[2][k], levels[3][k]>>])
            ELSE LevelItems(cls, series, dimensions, metrics, <<2>>,
                            [k \in 1..Len(levels[2]) |-> <<levels[2][k]>>])

_recurse_dimensions(cls, series, dimensions, metrics, reference) ==
    IF cls = "column"
    THEN Column_recurse_dimensions(cls, series, dimensions, metrics, reference)
    ELSE Row_recurse_dimensions(cls, series, dimensions, metrics, reference)

\* df[reference] for each of [''] + list(references), then the recursion
ReferenceItems(cls, series, dimensions, metrics, references) ==
    LET keys == <<<<>>>> \o DictKeys(references)
    IN CollectAll([k \in 1..Len(keys) |->
           IF ~IsMultiIndex(series.index) \/ Matching(series, <<1>>, <<Str(keys[k])>>) = <<>>
           THEN Raise("KeyError")
           ELSE _recurse_dimensions(cls, CrossSection(series, <<1>>, <<Str(keys[k])>>),
                                    dimensions, metrics, keys[k])])

_render_metric_data(cls, series, dimensions, metrics, references) ==
    CollectAll(<<IF ~IsMultiIndex(series.index)
                 THEN MetricLeaves(series, metrics) ELSE Ok(<<>>),
                 IF references # <<>>
                 THEN ReferenceItems(cls, series, dimensions, metrics, references)
                 ELSE _recurse_dimensions(cls, series, dimensions, metrics, <<>>)>>)

\* One pass of the loop over iterrows(): the record of row r
IndexLevels(df) == IF IsMultiIndex(df.index) THEN Len(df.index.levels) ELSE 1

\* row = {}; row[key] = value for each item
Record(items) == IF items.exc # "" THEN items ELSE Ok(DictOf(items.val))

RenderRow(cls, df, schema, r) ==
    Record(Then(
        _render_dimension_data(
            df.index.keys[r],
            SubSeq(schema.dimensions, 1, Min(IndexLevels(df), Len(schema.dimensions)))),
        _render_metric_data(
            cls, RowSeries(df, r),
            SubSeq(schema.dimensions, IndexLevels(df) + 1, Len(schema.dimensions)),
            schema.metrics, ReferencesOf(schema))))

\* The records collected in the reverse of the row order
_render_data_Reversed(cls, df, schema) ==
    Collect([r \in 1..Len(df.index.keys) |->
        RenderRow(cls, df, schema, Len(df.index.keys) + 1 - r)])

_render_data(cls, df, schema) ==
    Collect([r \in 1..Len(df.index.keys) |-> RenderRow(cls, df, schema, r)])

(***************************************************************************)
(* DataTablesColumnIndexTransformer                                        *)
(***************************************************************************)
\* The levels to unstack: every dimension after the first, with its label level
RECURSIVE UnstackLevels(_)
UnstackLevels(dimensions) ==
    IF dimensions = <<>> THEN <<>>
    ELSE <<dimensions[1][1]>>
         \o (IF dimensions[1][2].has_label_field
             THEN <<dimensions[1][2].label_field>> ELSE <<>>)
         \o UnstackLevels(Tail(dimensions))

Column_prepare_dataframe(df, dimensions) ==
    IF 2 > Len(dimensions) THEN Row_prepare_dataframe(df, dimensions)
    ELSE DataFrame_unstack(Row_prepare_dataframe(df, dimensions).val,
                           UnstackLevels(Rest(dimensions)))

_prepare_dataframe(cls, df, dimensions) ==
    IF cls = "column" THEN Column_prepare_dataframe(df, dimensions)
    ELSE Row_prepare_dataframe(df, dimensions)

\* DataTablesRowIndexTransformer.transform, with self of class cls
Failed(exc) == [exc |-> exc, columns |-> <<>>, data |-> <<>>]

\* The returned dict: the columns are rendered before the data
RenderParts(columns, data) ==
    IF columns.exc # "" THEN Failed(columns.exc)
    ELSE IF data.exc # "" THEN Failed(data.exc)
    ELSE [exc |-> "", columns |-> columns.val, data |-> data.val]

RenderPrepared(cls, prepared, schema) ==
    IF prepared.exc # "" THEN Failed(prepared.exc)
    ELSE RenderParts(_render_columns(cls, prepared.val, schema),
                     _render_data(cls, prepared.val, schema))

Render(cls, df, schema) ==
    RenderPrepared(cls, _prepare_dataframe(cls, df, schema.dimensions), schema)

(***************************************************************************)
(* CSVRowIndexTransformer, CSVColumnIndexTransformer                       *)
(***************************************************************************)
\* dataframe.rename(columns=lambda metric: metrics.get(metric, metric)): a copy whose
\* column labels, at every level, are replaced where they are metric keys
CSVRow_format_columns_InPlace(df, metrics, dimensions) ==
    LET label(x) == IF MetricsHas(metrics, x) THEN Str(DictGet(metrics, x.v)) ELSE x
        keys == [c \in 1..Len(df.columns.keys) |->
                    [k \in 1..Len(df.columns.keys[c]) |-> label(df.columns.keys[c][k])]]
    IN Ok([df EXCEPT !.columns.keys = keys])

CSVRow_format_columns(df, metrics, dimensions) ==
    LET label(x) == IF MetricsHas(metrics, x) THEN Str(DictGet(metrics, x.v)) ELSE x
        keys == [c \in 1..Len(df.columns.keys) |->
                    [k \in 1..Len(df.columns.keys[c]) |-> label(df.columns.keys[c][k])]]
    IN Ok([df EXCEPT !.obj = "copy", !.columns.keys = keys])

\* One synthesized header label of the pivoted frame
RECURSIVE DimensionLabels(_, _, _)
DimensionLabels(names, dimension_values, dimensions) ==
    IF names = <<>> \/ dimension_values = <<>> THEN Ok(<<>>)
    ELSE IF ~DictHas(dimensions, Head(names)) THEN Raise("KeyError")
    ELSE LET dimension == DictGet(dimensions, Head(names))
             dimension_value == Head(dimension_values)
             dimension_label ==
                 _format_data_point(
                     IF dimension.has_label_options
                     THEN OptionsGet(dimension.label_options, dimension_value, dimension_value)
                     ELSE dimension_value)
             rest == DimensionLabels(Tail(names), Tail(dimension_values), dimensions)
         IN IF rest.exc # "" THEN rest
            ELSE Ok((IF dimension_label # None THEN <<dimension_label>> ELSE <<>>) \o rest.val)

ColumnLabelOf(metric_value, dimension_labels, metrics) ==
    IF dimension_labels.exc # "" THEN dimension_labels
    ELSE IF dimension_labels.val # <<>>
    THEN IF ~MetricsHas(metrics, metric_value) THEN Raise("KeyError")
         ELSE IF \E k \in 1..Len(dimension_labels.val) : dimension_labels.val[k].t # "str"
              THEN Raise("TypeError")
         ELSE Ok(<<Str(DictGet(metrics, metric_value.v) \o <<" ", "(">>
                       \o Join(<<",", " ">>, StrOf(dimension_labels.val)) \o <<")">>)>>)
    ELSE IF ~MetricsHas(metrics, metric_value) THEN Raise("KeyError")
         ELSE Ok(<<Str(DictGet(metrics, metric_value.v))>>)

ColumnLabel(names, idx, metrics, dimensions) ==
    ColumnLabelOf(idx[1], DimensionLabels(Tail(names), Tail(idx), dimensions), metrics)

_format_column_labels(csv_df, metrics, dimensions) ==
    Collect([c \in 1..Len(csv_df.columns.keys) |->
        ColumnLabel(csv_df.columns.names, csv_df.columns.keys[c], metrics, dimensions)])

\* csv_df.columns = labels
Relabel(csv_df, labels) ==
    IF labels.exc # "" THEN labels
    ELSE Ok([csv_df EXCEPT !.columns = Index(NoName, labels.val)])

FormatPrepared(csv_df, metrics, dimensions) ==
    IF csv_df.exc # "" THEN csv_df
    ELSE Relabel(csv_df.val, _format_column_labels(csv_df.val, metrics, dimensions))

CSVColumn_format_columns(df, metrics, dimensions) ==
    IF 1 < Len(dimensions)
    THEN FormatPrepared(Column_prepare_dataframe(df, dimensions), metrics, dimensions)
    ELSE CSVRow_format_columns(df, metrics, dimensions)

_format_columns(cls, df, metrics, dimensions) ==
    IF cls = "csv_column" THEN CSVColumn_format_columns(df, metrics, dimensions)
    ELSE CSVRow_format_columns(df, metrics, dimensions)

\* csv_df.index.get_level_values(name)
HasLevel(index, name) == \E k \in 1..Len(index.names) : index.names[k] = name

LevelOf(index, name) ==
    LET k == CHOOSE j \in 1..Len(index.names) : index.names[j] = name
    IN [r \in 1..Len(index.keys) |-> index.keys[r][k]]

get_level_values(csv_df, key, dimension) ==
    IF dimension.has_label_options
    THEN IF ~HasLevel(csv_df.index, key) THEN Raise("KeyError")
         ELSE Ok([r \in 1..Len(csv_df.index.keys) |->
                  _format_data_point(OptionsGet(dimension.label_options,
                                                LevelOf(csv_df.index, key)[r],
                                                LevelOf(csv_df.index, key)[r]))])
    ELSE IF dimension.has_label_field
    THEN IF ~HasLevel(csv_df.index, dimension.label_field) THEN Raise("KeyError")
         ELSE Ok([r \in 1..Len(csv_df.index.keys) |->
                  _format_data_point(LevelOf(csv_df.index, dimension.label_field)[r])])
    ELSE IF ~HasLevel(csv_df.index, key) THEN Raise("KeyError")
         ELSE Ok([r \in 1..Len(csv_df.index.keys) |->
                  _format_data_point(LevelOf(csv_df.index, key)[r])])

\* The index becomes one level of display labels per dimension in `levels`
\* csv_df.index = values; csv_df.index.names = the keys of levels
Reindexed(csv_df, levels, values) ==
    IF values.exc # "" THEN values
    ELSE IF levels = <<>> THEN Raise("ValueError")
    ELSE Ok([csv_df EXCEPT !.index =
                [kind |-> "MultiIndex",
                 names |-> DictKeys(levels),
                 keys |-> [r \in 1..Len(csv_df.index.keys) |->
                              [k \in 1..Len(levels) |-> values.val[k][r]]],
                 levels |-> <<>>]])

FormatLevels(csv_df, levels) ==
    Reindexed(csv_df, levels,
              Collect([k \in 1..Len(levels) |->
                  get_level_values(csv_df, levels[k][1], levels[k][2])]))

_format_index(csv_df, dimensions) ==
    FormatLevels(csv_df,
                 IF IsMultiIndex(csv_df.index) THEN dimensions
                 ELSE SubSeq(dimensions, 1, Min(1, Len(dimensions))))

CSVRow_row_dimension_labels(dimensions) ==
    [k \in 1..Len(dimensions) |-> Str(dimensions[k][2].label)]

CSVColumn_row_dimension_labels(dimensions) ==
    [k \in 1..Min(1, Len(dimensions)) |-> Str(dimensions[k][2].label)]

_row_dimension_labels(cls, dimensions) ==
    IF cls = "csv_column" THEN CSVColumn_row_dimension_labels(dimensions)
    ELSE CSVRow_row_dimension_labels(dimensions)

Blank == Str(<<>>)

NameCell(name) == IF name = NoName THEN Blank ELSE Str(name)

\* csv_df.to_csv(...): the table before it is written as text.  The header is one
\* line for a flat column index; a MultiIndex gives one line per column level and
\* then the line of index labels.
to_csv(csv_df, with_index, index_label) ==
    LET columns == csv_df.columns
        ncols == Len(columns.keys)
        blanks(n) == [k \in 1..n |-> Blank]
        level_line(i) ==
            (IF with_index
             THEN <<NameCell(columns.names[i])>> \o blanks(Len(index_label) - 1)
             ELSE <<>>)
            \o [c \in 1..ncols |-> columns.keys[c][i]]
        header ==
            IF IsMultiIndex(columns)
            THEN [i \in 1..Len(columns.names) |-> level_line(i)]
                 \o (IF with_index /\ index_label # <<>>
                     THEN <<index_label \o blanks(ncols)>> ELSE <<>>)
            ELSE <<(IF with_index THEN index_label ELSE <<>>)
                   \o [c \in 1..ncols |-> columns.keys[c][1]]>>
    IN [header |-> header,
        index |-> IF with_index THEN csv_df.index.keys
                  ELSE [r \in 1..Len(csv_df.index.keys) |-> <<>>],
        cells |-> csv_df.values]

\* CSVRowIndexTransformer.transform, with self of class cls
\* What a call leaves: what it returns or raises, and the frame of the caller,
\* which the assignments to csv_df changed when csv_df is the caller's object
Left(out, csv_df, df) ==
    [exc |-> out.exc, val |-> out.val,
     caller |-> IF csv_df.obj = "caller" THEN csv_df ELSE df]

WriteIndexed(indexed, row_dimension_labels, csv_df, df) ==
    IF indexed.exc # "" THEN Left(Raise(indexed.exc), csv_df, df)
    ELSE Left(Ok(to_csv(indexed.val, TRUE, row_dimension_labels)), indexed.val, df)

SerializeFormatted(cls, csv_df, df, schema) ==
    IF csv_df.exc # "" THEN Left(Raise(csv_df.exc), df, df)
    ELSE IF df.index.kind = "RangeIndex"
    THEN Left(Ok(to_csv(csv_df.val, FALSE, <<>>)), csv_df.val, df)
    ELSE WriteIndexed(_format_index(csv_df.val, schema.dimensions),
                      _row_dimension_labels(cls, schema.dimensions), csv_df.val, df)

Serialize(cls, df, schema) ==
    SerializeFormatted(cls, _format_columns(cls, df, schema.metrics, schema.dimensions),
                       df, schema)

(***************************************************************************)
(* The inputs: a display schema and the result frame of its query          *)
(***************************************************************************)
MaxRows == 2

Digit(i) == <<"0", "1", "2", "3", "4", "5", "6", "7", "8", "9">>[i + 1]

Kinds == {"plain", "label_field", "label_options"}

\* The label_options of a label_options dimension: 'a' has a label, 'z' has none
LabelOptions == << <<Str(<<"a">>), <<"A">>>> >>

Dimension(i, kind) ==
    <<<<"d", Digit(i)>>,
      [label |-> <<"D", Digit(i)>>,
       has_label_field |-> kind = "label_field",
       label_field |-> <<"l", Digit(i)>>,
       has_label_options |-> kind = "label_options",
       label_options |-> IF kind = "label_options" THEN LabelOptions ELSE <<>>]>>

\* The index levels a dimension brings: its label level, when it has one, comes first
LevelNames(i, kind) ==
    IF kind = "label_field" THEN <<<<"l", Digit(i)>>, <<"d", Digit(i)>>>>
    ELSE <<<<"d", Digit(i)>>>>

\* The values a dimension takes in a row key
LevelSlots(kind) ==
    CASE kind = "plain" -> {<<Str(<<"a">>)>>, <<Str(<<"b">>)>>}
      [] kind = "label_options" -> {<<Str(<<"a">>)>>, <<Str(<<"z">>)>>}
      [] kind = "label_field" ->
            {<<Str(<<"A">>), Int64(<<"1">>)>>, <<Str(<<"B">>), Int64(<<"2">>)>>}

\* The totals rows of a rollup: nan in the last dimension (and in its label level)
TotalsSlots(kind) == IF kind = "label_field" THEN {<<NaN, NaN>>} ELSE {<<NaN>>}

RECURSIVE RowKeys(_)
RowKeys(shape) ==
    IF shape = <<>> THEN {<<>>}
    ELSE {slot \o rest :
            slot \in LevelSlots(Head(shape))
                     \cup (IF Len(shape) = 1 THEN TotalsSlots(Head(shape)) ELSE {}),
            rest \in RowKeys(Tail(shape))}

\* The dimensions of the query: none, one or two, of every kind
Shapes == UNION {[1..n -> Kinds] : n \in 0..2}

MetricChoices ==
    {<< <<<<"v">>, <<"V">>>> >>,
     << <<<<"v">>, <<"V">>>>, <<<<"w", ".", "x">>, <<"W">>>> >>}

ReferenceChoices == {<<>>, << <<<<"e">>, <<"E">>>> >>}

SpecialCells == {None, NaN, PosInf, NegInf}

\* Row keys are unique
RowSequences(shape) ==
    IF shape = <<>>
    THEN {[r \in 1..n |-> <<Int64(<<Digit(r - 1)>>)>>] : n \in 1..MaxRows}
    ELSE UNION {{keys \in [1..n -> RowKeys(shape)] :
                    \A i, j \in 1..n : i # j => keys[i] # keys[j]} : n \in 1..MaxRows}

Schema(shape, metrics, references) ==
    [dimensions |-> [i \in 1..Len(shape) |-> Dimension(i, shape[i])],
     metrics |-> metrics,
     has_references |-> references # <<>>,
     references |-> references]

Columns(metrics, references) ==
    IF references = <<>>
    THEN Index(NoName, [m \in 1..Len(metrics) |-> <<Str(metrics[m][1])>>])
    ELSE MultiIndex(<<NoName, NoName>>,
            Flatten([k \in 1..(Len(references) + 1) |->
                [m \in 1..Len(metrics) |->
                    <<Str(IF k = 1 THEN <<>> ELSE references[k - 1][1]), Str(metrics[m][1])>>]]))

\* The frame: cell (r, c) holds the number rc, but for one special cell (None: no
\* special cell)
Frame(shape, metrics, references, keys, special) ==
    LET columns == Columns(metrics, references)
    IN [obj |-> "caller",
        index |-> IF shape = <<>> THEN RangeIndex(keys)
                  ELSE MakeIndex(Flatten([i \in 1..Len(shape) |-> LevelNames(i, shape[i])]), keys),
        columns |-> columns,
        values |-> [r \in 1..Len(keys) |->
            [c \in 1..Len(columns.keys) |->
                IF r = 1 /\ c = 1 /\ special # None THEN special
                ELSE Int64(<<Digit(r), Digit(c)>>)]]]

NoResult == [exc |-> "", columns |-> <<>>, data |-> <<>>,
             header |-> <<>>, index |-> <<>>, cells |-> <<>>]

RenderResult(r) == [NoResult EXCEPT !.exc = r.exc, !.columns = r.columns, !.data = r.data]

SerializeResult(r) ==
    IF r.exc # "" THEN [NoResult EXCEPT !.exc = r.exc]
    ELSE [NoResult EXCEPT !.header = r.val.header, !.index = r.val.index,
                          !.cells = r.val.cells]

Init ==
    \E shape \in Shapes, metrics \in MetricChoices, references \in ReferenceChoices,
       special \in SpecialCells :
        \E keys \in RowSequences(shape) :
            /\ display_schema = Schema(shape, metrics, references)
            /\ dataframe = Frame(shape, metrics, references, keys, special)
            /\ called = "none"
            /\ result = NoResult

\* A result whose keys name what the schema does not contain: the frame of a query
\* with one more metric, one more dimension, or both, than the schema describes
Lacking(described, lacks) ==
    IF lacks THEN SubSeq(described, 1, Len(described) - 1) ELSE described

InitUnknownKeys ==
    \E shape \in Shapes, metrics \in MetricChoices, references \in ReferenceChoices,
       special \in SpecialCells, lacks_metric \in BOOLEAN, lacks_dimension \in BOOLEAN :
        \E keys \in RowSequences(shape) :
            /\ lacks_metric \/ lacks_dimension
            /\ lacks_metric => Len(metrics) = 2
            /\ lacks_dimension => Len(shape) >= 1
            /\ display_schema = Schema(Lacking(shape, lacks_dimension),
                                       Lacking(metrics, lacks_metric), references)
            /\ dataframe = Frame(shape, metrics, references, keys, special)
            /\ called = "none"
            /\ result = NoResult

(***************************************************************************)
(* The four transformers                                                   *)
(***************************************************************************)
\* The renderers assign to no attribute or item of a frame or of the schema
DataTablesRowIndexTransformer_transform ==
    /\ called = "none"
    /\ called' = "row"
    /\ result' = RenderResult(Render("row", dataframe, display_schema))
    /\ UNCHANGED <<dataframe, display_schema>>

DataTablesColumnIndexTransformer_transform ==
    /\ called = "none"
    /\ called' = "column"
    /\ result' = RenderResult(Render("column", dataframe, display_schema))
    /\ UNCHANGED <<dataframe, display_schema>>

\* The serializer is over: its text or its exception is the result, and the frame of
\* the caller is as the call left it
Returned(out) ==
    /\ result' = SerializeResult(out)
    /\ dataframe' = out.caller

CSVRowIndexTransformer_transform ==
    /\ called = "none"
    /\ called' = "csv_row"
    /\ Returned(Serialize("csv_row", dataframe, display_schema))
    /\ UNCHANGED display_schema

CSVColumnIndexTransformer_transform ==
    /\ called = "none"
    /\ called' = "csv_column"
    /\ Returned(Serialize("csv_column", dataframe, display_schema))
    /\ UNCHANGED display_schema

Next ==
    \/ DataTablesRowIndexTransformer_transform
    \/ DataTablesColumnIndexTransformer_transform
    \/ CSVRowIndexTransformer_transform
    \/ CSVColumnIndexTransformer_transform

Spec == Init /\ [][Next]_vars

SpecUnknownKeys == InitUnknownKeys /\ [][Next]_vars

(***************************************************************************)
(* Properties                                                              *)
(***************************************************************************)
Dimensions == display_schema.dimensions

Rendered == called \in {"row", "column"} /\ result.exc = ""

DisplayKey == Str(<<"d", "i", "s", "p", "l", "a", "y">>)

ValueKey == Str(<<"v", "a", "l", "u", "e">>)

\* The number of row-key slots of a dimension, and the slot dimension k starts at
Width(dimension) == IF dimension.has_label_field THEN 2 ELSE 1

RECURSIVE SlotOf(_, _)
SlotOf(dimensions, k) ==
    IF k = 1 THEN 1 ELSE SlotOf(dimensions, k - 1) + Width(dimensions[k - 1][2])

\* The entry of dimension k in a record
Entry(record, k) == DictGet(record, Str(Dimensions[k][1])).items

HasInfCell == \E r \in 1..Len(dataframe.values) :
                \E c \in 1..Len(dataframe.values[r]) : IsInf(dataframe.values[r][c])

\* C1: with fewer than two dimensions the column-pivoted renderer returns exactly
\* what the row-oriented renderer returns for the same result and schema, with or
\* without references.
C1_ColumnEqualsRowBelowTwoDimensions ==
    (called = "column" /\ Len(Dimensions) < 2)
        => result = RenderResult(Render("row", dataframe, display_schema))

C1_Witness ==
    /\ called = "column"
    /\ Len(Dimensions) = 1
    /\ display_schema.has_references
    /\ result.exc = ""
    /\ Len(result.data) = 2

\* C2 as stated: a row dimension with label_options displays a label of its mapping
\* or "Total", never a raw value the mapping does not contain.
C2_DisplayIsOptionOrTotal ==
    Rendered =>
        \A r \in 1..Len(result.data) : \A k \in 1..Len(Dimensions) :
            (Dimensions[k][2].has_label_options /\ DictHas(result.data[r], Str(Dimensions[k][1])))
                => DictGet(Entry(result.data[r], k), DisplayKey).val
                       \in {Str(Dimensions[k][2].label_options[i][2]) :
                               i \in 1..Len(Dimensions[k][2].label_options)}
                          \cup {Str(Total)}

\* C2 amended: the display is the label of the raw value when the mapping has it,
\* the raw value itself when the mapping does not have it and it is truthy, and
\* "Total" when what the lookup gives is falsy (a missing or empty raw value, an
\* empty label).  In the row-oriented renderer the raw value is the formatted slot
\* of the row key.
C2_DisplayIsOptionOrRawOrTotal ==
    Rendered =>
        \A r \in 1..Len(result.data) : \A k \in 1..Len(Dimensions) :
            (Dimensions[k][2].has_label_options /\ DictHas(result.data[r], Str(Dimensions[k][1])))
                => LET options == Dimensions[k][2].label_options
                       display == DictGet(Entry(result.data[r], k), DisplayKey).val
                       value == DictGet(Entry(result.data[r], k), ValueKey).val
                       label == options[CHOOSE i \in 1..Len(options) : options[i][1] = value][2]
                   IN /\ display =
                            IF \E i \in 1..Len(options) : options[i][1] = value
                            THEN (IF label # <<>> THEN Str(label) ELSE Str(Total))
                            ELSE IF ~Truthy(value) THEN Str(Total)
                            ELSE value
                      /\ called = "row" =>
                            value = _format_data_point(
                                        dataframe.index.keys[r][SlotOf(Dimensions, k)])

C2_Witness ==
    /\ called = "row"
    /\ result.exc = ""
    /\ \E r \in 1..Len(result.data) : \E k \in 1..Len(Dimensions) :
        /\ Dimensions[k][2].has_label_options
        /\ DictGet(Entry(result.data[r], k), DisplayKey).val = Str(<<"z">>)
        /\ dataframe.index.keys[r][SlotOf(Dimensions, k)] = Str(<<"z">>)

(***************************************************************************)
(* What the properties read off the inputs and the output                  *)
(***************************************************************************)
\* The frame the renderer called works on, after its preparation
Prepared == _prepare_dataframe(called, dataframe, Dimensions).val

HasReferences == display_schema.has_references

MetricLabel(key) == DictGet(display_schema.metrics, key)

ReferenceLabel(key) == DictGet(display_schema.references, key)

\* The reference and the metric a column key names (<<>>: no reference)
ReferenceOf(column_key) == IF HasReferences THEN column_key[1].v ELSE <<>>

MetricOf(column_key) == column_key[IF HasReferences THEN 2 ELSE 1].v

BaseTitle(column_key) ==
    IF ReferenceOf(column_key) = <<>> THEN MetricLabel(MetricOf(column_key))
    ELSE MetricLabel(MetricOf(column_key)) \o <<" ">> \o ReferenceLabel(ReferenceOf(column_key))

\* The slot of a pivoted column key that holds the raw value of dimension k >= 2
RECURSIVE PivotSlot(_)
PivotSlot(k) ==
    IF k = 2 THEN (IF HasReferences THEN 3 ELSE 2)
    ELSE PivotSlot(k - 1) + Width(Dimensions[k - 1][2])

PivotedDimensions(column_key) ==
    IF Len(column_key) < 2 \/ Len(Dimensions) < 2 THEN <<>>
    ELSE [j \in 1..(Len(Dimensions) - 1) |-> j + 1]

\* The pivoted dimensions whose raw value in the column key is not nan
KeptDimensions(column_key) ==
    Without(PivotedDimensions(column_key),
            {k \in Range(PivotedDimensions(column_key)) : isnan(column_key[PivotSlot(k)])})

\* The label the statements C9 and C10 give to the level of dimension k in a column
\* key: for label_options the label of the raw value, "Total" for a raw value the
\* mapping does not contain
LevelLabel(column_key, k) ==
    LET dimension == Dimensions[k][2]
        raw == column_key[PivotSlot(k)]
    IN IF dimension.has_label_options
       THEN (IF \E i \in 1..Len(dimension.label_options) : dimension.label_options[i][1] = raw
             THEN dimension.label_options[
                     CHOOSE i \in 1..Len(dimension.label_options) :
                        dimension.label_options[i][1] = raw][2]
             ELSE Total)
       ELSE IF dimension.has_label_field THEN column_key[PivotSlot(k) + 1].v
       ELSE raw.v

\* The keys under which the value of a column is nested in a record
NestedPath(column_key) ==
    LET kept == KeptDimensions(column_key)
    IN (IF ReferenceOf(column_key) = <<>> THEN <<>> ELSE <<Str(ReferenceOf(column_key))>>)
       \o [j \in 1..Len(kept) |-> column_key[PivotSlot(kept[j])]]
       \o <<Str(MetricOf(column_key))>>

\* The same in the row-oriented renderer, where no dimension is pivoted
RowPath(column_key) ==
    (IF ReferenceOf(column_key) = <<>> THEN <<>> ELSE <<Str(ReferenceOf(column_key))>>)
    \o <<Str(MetricOf(column_key))>>

Addressable(column_key) == Len(KeptDimensions(column_key)) = Len(PivotedDimensions(column_key))

RECURSIVE HasPath(_, _)
HasPath(items, path) ==
    /\ DictHas(items, Head(path))
    /\ Len(path) > 1 => HasPath(DictGet(items, Head(path)).items, Tail(path))

RECURSIVE Lookup(_, _)
Lookup(items, path) ==
    IF Len(path) = 1 THEN DictGet(items, Head(path)).val
    ELSE Lookup(DictGet(items, Head(path)).items, Tail(path))

\* Every scalar of a nested value
RECURSIVE Leaves(_)
Leaves(node) ==
    IF node.kind = "leaf" THEN {node.val}
    ELSE UNION {Leaves(node.items[i][2]) : i \in 1..Len(node.items)}

\* The output of a cell: the missing representation for nan, +inf and -inf
Normalized(value) ==
    IF isnan(value) \/ IsInf(value) THEN None
    ELSE IF value.t = "int64" THEN PyInt(value.v)
    ELSE value

\* A cell with the encoding (JSON or text) ignored
CellView(value) == IF value = None \/ isnan(value) THEN <<"missing">> ELSE value.v

\* C3 as stated: in both renderers a row dimension with label_field has display and
\* value, read from two consecutive slots of the row key (the label, then the id),
\* the dimensions after it read the slots after them, for the row dimensions being
\* the first n of the schema (n the number of index levels), and no slot past the
\* end of the row key is read.
C3_LabelFieldReadsTwoSlots ==
    called \in {"row", "column"} =>
        /\ result.exc # "IndexError"
        /\ result.exc = "" =>
            LET n == IF IsMultiIndex(Prepared.index) THEN Len(Prepared.index.names) ELSE 1
            IN \A r \in 1..Len(result.data) : \A k \in 1..Min(n, Len(Dimensions)) :
                LET slot == SlotOf(Dimensions, k)
                    idx == Prepared.index.keys[r]
                    entry == Entry(result.data[r], k)
                IN IF Dimensions[k][2].has_label_field
                   THEN /\ slot + 1 <= Len(idx)
                        /\ DictGet(entry, DisplayKey).val = _format_data_point(idx[slot])
                        /\ DictGet(entry, ValueKey).val = _format_data_point(idx[slot + 1])
                   ELSE /\ slot <= Len(idx)
                        /\ DictGet(entry, IF Dimensions[k][2].has_label_options
                                          THEN ValueKey ELSE DisplayKey).val
                               = _format_data_point(idx[slot])

\* C4 as stated: the cells read from the nested structure equal the cells of the CSV
\* table, row by row and column by column, cells that are missing or infinite
\* included: row-oriented renderer against CSV row serializer, and column-pivoted
\* renderer against CSV column serializer where both return.
C4_NestedEqualsCSV ==
    /\ (called = "csv_row" /\ result.exc = "") =>
        LET nested == Render("row", dataframe, display_schema)
        IN /\ nested.exc = ""
           /\ Len(nested.data) = Len(result.cells)
           /\ \A r \in 1..Len(result.cells) : \A c \in 1..Len(result.cells[r]) :
                /\ HasPath(nested.data[r], RowPath(dataframe.columns.keys[c]))
                /\ CellView(Lookup(nested.data[r], RowPath(dataframe.columns.keys[c])))
                      = CellView(result.cells[r][c])
    /\ (called = "csv_column" /\ result.exc = "") =>
        LET nested == Render("column", dataframe, display_schema)
            columns == Column_prepare_dataframe(dataframe, Dimensions).val.columns.keys
        IN nested.exc = "" =>
           /\ Len(nested.data) = Len(result.cells)
           /\ \A r \in 1..Len(result.cells) : \A c \in 1..Len(result.cells[r]) :
                Addressable(columns[c]) =>
                    /\ HasPath(nested.data[r], NestedPath(columns[c]))
                    /\ CellView(Lookup(nested.data[r], NestedPath(columns[c])))
                          = CellView(result.cells[r][c])

\* C5: the columns of the row-oriented renderer are one {title: label, data:
\* "<key>.display"} per dimension of the schema, then one descriptor per column key
\* in column order: {title: metric label, data: metric key} without an active
\* reference, {title: "<metric label> <reference label>", data:
\* "<reference key>.<metric key>"} with one.
C5_RowColumns ==
    called = "row" =>
        /\ result.exc = ""
        /\ result.columns =
            [k \in 1..Len(Dimensions) |->
                [title |-> Dimensions[k][2].label,
                 data |-> Dimensions[k][1] \o <<".", "d", "i", "s", "p", "l", "a", "y">>]]
            \o [c \in 1..Len(dataframe.columns.keys) |->
                LET key == dataframe.columns.keys[c]
                IN IF ReferenceOf(key) = <<>>
                   THEN [title |-> MetricLabel(MetricOf(key)), data |-> MetricOf(key)]
                   ELSE [title |-> MetricLabel(MetricOf(key)) \o <<" ">>
                                   \o ReferenceLabel(ReferenceOf(key)),
                         data |-> ReferenceOf(key) \o <<".">> \o MetricOf(key)]]

C5_Witness ==
    /\ called = "row"
    /\ HasReferences
    /\ Len(Dimensions) = 2
    /\ Dimensions[1][2].has_label_field
    /\ \E c \in 1..Len(result.columns) : result.columns[c].data = <<"e", ".", "w", ".", "x">>

\* C6 as stated: with references the CSV row serializer writes one header cell per
\* metric/reference combination, "<metric label>" and "<metric label> <reference
\* label>", the titles of the row renderer's columns, after the index labels.
C6_ReferenceHeaderCells ==
    (called = "csv_row" /\ HasReferences /\ result.exc = "") =>
        result.header =
            <<(IF dataframe.index.kind = "RangeIndex" THEN <<>>
               ELSE [k \in 1..Len(Dimensions) |-> Str(Dimensions[k][2].label)])
              \o [c \in 1..Len(dataframe.columns.keys) |->
                    Str(BaseTitle(dataframe.columns.keys[c]))]>>

\* The entry of dimension k in a record shows the slots of row key idx from `slot`
EntryMatches(record, k, idx, slot) ==
    /\ DictHas(record, Str(Dimensions[k][1]))
    /\ IF Dimensions[k][2].has_label_field
       THEN /\ DictGet(Entry(record, k), DisplayKey).val = _format_data_point(idx[slot])
            /\ DictGet(Entry(record, k), ValueKey).val = _format_data_point(idx[slot + 1])
       ELSE DictGet(Entry(record, k),
                    IF Dimensions[k][2].has_label_options THEN ValueKey ELSE DisplayKey).val
                = _format_data_point(idx[slot])

\* C7: data holds one record per row of the prepared result, in the order of its
\* rows: record i shows row key i and the values of row i.  For the row-oriented
\* renderer these are the input rows; for the column-pivoted renderer the rows left
\* after pivoting, one per distinct value of the first dimension.
C7_OneRecordPerRowInOrder ==
    Rendered =>
        LET prepared == Prepared
        IN /\ Len(result.data) = Len(prepared.index.keys)
           /\ called = "row" =>
               /\ Len(result.data) = Len(dataframe.index.keys)
               /\ \A r \in 1..Len(result.data) :
                   /\ \A k \in 1..Len(Dimensions) :
                       EntryMatches(result.data[r], k, dataframe.index.keys[r],
                                    SlotOf(Dimensions, k))
                   /\ \A c \in 1..Len(dataframe.columns.keys) :
                       Lookup(result.data[r], RowPath(dataframe.columns.keys[c]))
                           = Normalized(dataframe.values[r][c])
           /\ called = "column" =>
               /\ Len(Dimensions) >= 1 =>
                   Len(result.data) =
                       Cardinality({SubSeq(key, 1, Width(Dimensions[1][2])) :
                                       key \in Range(dataframe.index.keys)})
               /\ \A r \in 1..Len(result.data) :
                   /\ Len(Dimensions) >= 1 =>
                       EntryMatches(result.data[r], 1, prepared.index.keys[r], 1)
                   /\ \A c \in 1..Len(prepared.columns.keys) :
                       Addressable(prepared.columns.keys[c]) =>
                           Lookup(result.data[r], NestedPath(prepared.columns.keys[c]))
                               = Normalized(prepared.values[r][c])

\* The pivot put the rows in another order than the input's
C7_Witness ==
    /\ called = "column"
    /\ result.exc = ""
    /\ Len(Dimensions) = 2
    /\ Len(result.data) = 2
    /\ ~Dimensions[1][2].has_label_field
    /\ dataframe.index.keys[1][1] = Str(<<"b">>)
    /\ DictGet(Entry(result.data[2], 1), DisplayKey).val = dataframe.index.keys[1][1]

\* The input with every infinite cell replaced by a number
FiniteFrame ==
    [dataframe EXCEPT !.values =
        [r \in 1..Len(dataframe.values) |->
            [c \in 1..Len(dataframe.values[r]) |->
                IF IsInf(dataframe.values[r][c]) THEN Int64(<<"0">>)
                ELSE dataframe.values[r][c]]]]

\* The slots a row key gives to a pivoted column key: for each dimension after the
\* first its raw value, then its label
RECURSIVE PivotPart(_, _)
PivotPart(idx, k) ==
    IF k > Len(Dimensions) THEN <<>>
    ELSE (IF Dimensions[k][2].has_label_field
          THEN <<idx[SlotOf(Dimensions, k) + 1], idx[SlotOf(Dimensions, k)]>>
          ELSE <<idx[SlotOf(Dimensions, k)]>>)
         \o PivotPart(idx, k + 1)

\* C8: for an input with a +infinity or -infinity cell, the cell never makes render
\* raise (the row-oriented renderer never raises, and the column-pivoted one raises
\* exactly when it does with a number in the cell's place); no +/-infinity is
\* anywhere in the output; the cell of every input row and column is rendered as the
\* missing representation when it is nan, +infinity or -infinity and as its own
\* value otherwise.
C8_InfinityBecomesMissing ==
    (called \in {"row", "column"} /\ HasInfCell) =>
        /\ called = "row" => result.exc = ""
        /\ result.exc = Render(called, FiniteFrame, display_schema).exc
        /\ result.exc = "" =>
            /\ \A r \in 1..Len(result.data) : \A v \in Leaves(Node(result.data[r])) : ~IsInf(v)
            /\ \A i \in 1..Len(dataframe.index.keys) : \A c \in 1..Len(dataframe.columns.keys) :
                LET idx == dataframe.index.keys[i]
                    pivoted == called = "column" /\ Len(Dimensions) >= 2
                    key == dataframe.columns.keys[c] \o (IF pivoted THEN PivotPart(idx, 2) ELSE <<>>)
                    path == IF pivoted THEN NestedPath(key) ELSE RowPath(key)
                IN (pivoted => Addressable(key)) =>
                    \E r \in 1..Len(result.data) :
                        /\ ~pivoted => r = i
                        /\ pivoted => EntryMatches(result.data[r], 1, idx, 1)
                        /\ HasPath(result.data[r], path)
                        /\ Lookup(result.data[r], path) = Normalized(dataframe.values[i][c])

C8_Witness ==
    /\ called = "column"
    /\ result.exc = ""
    /\ Len(Dimensions) = 2
    /\ HasInfCell
    /\ dataframe.values[1][1] = NegInf
    /\ ~isnan(dataframe.index.keys[1][2])

\* C9 as stated: in the column-pivoted renderer the title of a column key is the
\* base title followed by " (<labels of the kept levels joined by ', '>)", and the
\* data path is the reference key when there is one, then the raw values of the
\* kept levels, then the metric key, joined by '.', for every metric key, reference
\* key and level value, also those with a '.' in them.
C9_PivotedColumnDescriptor ==
    (called = "column" /\ result.exc = "" /\ Len(Dimensions) >= 2) =>
        LET keys == Prepared.columns.keys
            nd == Len(result.columns) - Len(keys)
        IN \A c \in 1..Len(keys) :
            LET kept == KeptDimensions(keys[c])
            IN /\ result.columns[nd + c].title =
                    BaseTitle(keys[c])
                    \o (IF kept = <<>> THEN <<>>
                        ELSE <<" ", "(">>
                             \o Join(<<",", " ">>, [j \in 1..Len(kept) |-> LevelLabel(keys[c], kept[j])])
                             \o <<")">>)
               /\ result.columns[nd + c].data = Join(<<".">>, StrOf(NestedPath(keys[c])))

\* C10 as stated: rendering the header of a pivoted column never raises, a level is
\* dropped from the title and from the data path exactly when its raw value is nan,
\* and a kept level shows its label: for label_options the label of the raw value,
\* "Total" for a raw value the mapping does not contain.
C10_OnlyNaNLevelsDropped ==
    (called = "column" /\ Len(Dimensions) >= 2) =>
        /\ result.exc # "TypeError"
        /\ result.exc = "" =>
            LET keys == Prepared.columns.keys
                nd == Len(result.columns) - Len(keys)
            IN \A c \in 1..Len(keys) :
                LET kept == KeptDimensions(keys[c])
                    base == Row_render_column_level(TRUE, keys[c], display_schema).val
                IN /\ kept = <<>> <=> result.columns[nd + c].title = base.title
                   /\ kept = <<>> <=> result.columns[nd + c].data = base.data
                   /\ kept # <<>> =>
                        result.columns[nd + c].title =
                            base.title \o <<" ", "(">>
                            \o Join(<<",", " ">>, [j \in 1..Len(kept) |-> LevelLabel(keys[c], kept[j])])
                            \o <<")">>

\* C11 as stated: the CSV row serializer writes no index column for a result without
\* dimensions (every header line and every data line holds only the metric
\* columns); with one or more dimensions its header line starts with one cell per
\* dimension, the dimension's label, in schema order, and every data line with one
\* index cell per dimension.
C11_IndexColumnsOfCSVRow ==
    called = "csv_row" =>
        /\ result.exc = ""
        /\ Len(Dimensions) = 0 =>
            /\ \A i \in 1..Len(result.header) :
                Len(result.header[i]) = Len(dataframe.columns.keys)
            /\ \A r \in 1..Len(result.index) : result.index[r] = <<>>
        /\ Len(Dimensions) >= 1 =>
            /\ Len(result.header[1]) = Len(Dimensions) + Len(dataframe.columns.keys)
            /\ SubSeq(result.header[1], 1, Len(Dimensions))
                = [k \in 1..Len(Dimensions) |-> Str(Dimensions[k][2].label)]
            /\ \A r \in 1..Len(result.index) : Len(result.index[r]) = Len(Dimensions)

\* C12 as stated: for every row and every dimension the index cell the CSV row
\* serializer writes is the display the row-oriented renderer emits for the same
\* row and dimension: the label level for label_field, the substituted label or
\* "Total" for label_options, the formatted raw value otherwise.
C12_IndexCellIsRenderedDisplay ==
    (called = "csv_row" /\ result.exc = "" /\ Len(Dimensions) >= 1) =>
        LET rendered == Render("row", dataframe, display_schema)
        IN /\ rendered.exc = ""
           /\ Len(result.index) = Len(rendered.data)
           /\ \A r \in 1..Len(result.index) : \A k \in 1..Len(Dimensions) :
               result.index[r][k] = DictGet(Entry(rendered.data[r], k), DisplayKey).val

\* C13 as stated: with two or more dimensions the CSV column serializer does not
\* raise, with or without references and label_field dimensions; its header has
\* one index-label cell, the label of the first dimension, then for every pivoted
\* column key the title the column-pivoted renderer gives that key ("<metric label>
\* (<level labels joined by ', '>)", labels substituted, missing levels dropped);
\* every data line has one index cell.
C13_PivotedHeaderOfCSVColumn ==
    (called = "csv_column" /\ Len(Dimensions) >= 2) =>
        LET prepared == Column_prepare_dataframe(dataframe, Dimensions).val
            columns == _render_columns("column", prepared, display_schema)
            nd == Len(columns.val) - Len(prepared.columns.keys)
        IN /\ result.exc = ""
           /\ Len(result.header) = 1
           /\ Len(result.header[1]) = 1 + Len(prepared.columns.keys)
           /\ result.header[1][1] = Str(Dimensions[1][2].label)
           /\ columns.exc = "" =>
               \A c \in 1..Len(prepared.columns.keys) :
                   result.header[1][1 + c] = Str(columns.val[nd + c].title)
           /\ \A r \in 1..Len(result.index) : Len(result.index[r]) = 1

\* C14: a call of transform of any of the four transformers, whether it returns or
\* raises, leaves the caller's result frame (values, row index, column index,
\* names) and the caller's schema as they were.
C14_CallerStateUnchanged ==
    [][dataframe' = dataframe /\ display_schema' = display_schema]_vars

\* A serializer relabelled the columns and the index of its frame and returned
C14_Witness ==
    /\ called = "csv_column"
    /\ Len(Dimensions) = 2
    /\ result.exc = ""
    /\ result.header[1][1] = Str(Dimensions[1][2].label)
    /\ dataframe.obj = "caller"
    /\ dataframe.columns.keys[1] = <<Str(<<"v">>)>>
    /\ dataframe.index.names = <<<<"d", "1">>, <<"d", "2">>>>

\* A level of the row keys that is neither a dimension of the schema nor the
\* label_field of one
UnknownDimensionLevel ==
    /\ dataframe.index.kind # "RangeIndex"
    /\ \E k \in 1..Len(dataframe.index.names) :
           ~\E i \in 1..Len(Dimensions) :
               \/ Dimensions[i][1] = dataframe.index.names[k]
               \/ /\ Dimensions[i][2].has_label_field
                  /\ Dimensions[i][2].label_field = dataframe.index.names[k]

\* A column key whose metric slot (the last one) is no metric of the schema
UnknownMetricKey ==
    \E c \in 1..Len(dataframe.columns.keys) :
        ~MetricsHas(display_schema.metrics,
                    dataframe.columns.keys[c][Len(dataframe.columns.keys[c])])

\* C15: when a row-key level or a column key of the result names a dimension or a
\* metric that the schema does not contain, render and serialize raise an error;
\* they return no output that leaves the dimension out or passes the metric
\* through unlabelled.
C15_UnknownKeyRaises ==
    (called # "none" /\ (UnknownDimensionLevel \/ UnknownMetricKey)) =>
        /\ result.exc # ""
        /\ result = [NoResult EXCEPT !.exc = result.exc]

\* record[s1][s2]...: the segments of a data path name a field of the record
RECURSIVE Resolves(_, _)
Resolves(items, segments) ==
    \E i \in 1..Len(items) :
        /\ items[i][1].v = Head(segments)
        /\ \/ Len(segments) = 1
           \/ /\ items[i][2].kind = "dict"
              /\ Resolves(items[i][2].items, Tail(segments))

\* The keys that lead to each scalar of a record
RECURSIVE LeafPaths(_)
LeafPaths(items) ==
    UNION {IF items[i][2].kind = "leaf" THEN {<<items[i][1].v>>}
           ELSE {<<items[i][1].v>> \o path : path \in LeafPaths(items[i][2].items)} :
           i \in 1..Len(items)}

\* C16: in every output of the two renderers the data path of every column, split
\* on '.', names a field of every record, and every metric leaf of a record is
\* named by the data path of some column, pivoted dimensions with label_field and
\* column keys whose nan level was dropped included.
C16_DataPathsResolve ==
    Rendered =>
        \A r \in 1..Len(result.data) :
            /\ \A c \in 1..Len(result.columns) :
                   Resolves(result.data[r], Split(result.columns[c].data, "."))
            /\ \A path \in LeafPaths(result.data[r]) :
                   \/ \E k \in 1..Len(Dimensions) : path[1] = Dimensions[k][1]
                   \/ \E c \in 1..Len(result.columns) :
                          Split(result.columns[c].data, ".") = path

====
